---- MODULE Spec2Model ----
(***************************************************************************)
(* Dragon Jump (src/pages/index.js): the React component's game state, its *)
(* event handlers and the requestAnimationFrame game loop.                 *)
(*                                                                         *)
(* Lengths (x, y, vy) are kept in 1/Scale px so that the loop's arithmetic *)
(* on dt/1000 is exact; widths, heights and insets are whole px, as        *)
(* Math.round leaves them.  A pending animation-frame callback carries the *)
(* values its gameLoop closure captured (width, height, score,             *)
(* isGameOver) at the render that created it.                              *)
(***************************************************************************)
EXTENDS Integers, Sequences, FiniteSets

VARIABLES
    width, height,        \* useState width / height
    running, isGameOver,  \* useState running / isGameOver
    score, highScore,     \* useState score / highScore
    storage,              \* localStorage["dj_highscore"], as a number
    player,               \* playerRef.current
    obstacles,            \* obstaclesRef.current
    baseSpeed,            \* baseSpeedRef.current
    spawnTimer,           \* spawnTimerRef.current
    difficulty,           \* difficultyRef.current
    rafRef,               \* rafRef.current: an id, or Null
    pending,              \* callbacks requestAnimationFrame holds: [id, w, h, score, go]
    lastFromPerf,         \* lastTimeRef.current was last set from performance.now()
    hidden,               \* document.hidden
    startLoop,            \* the gameLoop closure startGame was memoised with
    visLoop,              \* the gameLoop closure onVis was registered with
    lastOp,               \* the handler that ran last
    nWrites,              \* localStorage.setItem calls made by the last handler
    launched,             \* the last handler called doJump and it set the launch velocity
    negTicks,             \* gameLoop calls of this run whose timestamp preceded lastTimeRef
    lastDt                \* dt (ms) the last handler computed, 0 if it was not gameLoop

vars == << width, height, running, isGameOver, score, highScore, storage, player,
           obstacles, baseSpeed, spawnTimer, difficulty, rafRef, pending,
           lastFromPerf, hidden, startLoop, visLoop, lastOp, nWrites,
           launched, negTicks, lastDt >>

\* rafRef.current = null; the ids requestAnimationFrame returns start at 1
Null == 0

\* ------------------------------------------------------------------ bounds

\* gameLoop calls per run that may see a frame timestamp earlier than lastTimeRef
MaxNegTicks == 1
\* the largest of the first scores a mid-run world of InitTick starts from
MaxInitScore == 1
\* the highest difficulty level a mid-run world of InitLevel starts at
\* (650 - 15 * level falls below 320 at level 23, the cut of 350 is reached at
\* level 24)
MaxLevel == 26

\* ------------------------------------------------------- program constants

Scale == 1000            \* dtSec = dt / 1000
DtClamp == 40            \* Math.min(40, ...)
Gravity == 34
SpeedPerLevel == 22
SpawnBase == 650
SpawnCut == 350
SpawnPerLevel == 15
SpawnMin == 320
SpawnMargin == 20        \* x: width + 20
Offscreen == 50          \* o.x + o.w > -50
LevelEvery == 5          \* Math.floor(ns / 5)
InsetPct == 8            \* 0.08
MaxVw == 480
MinW == 300

\* ------------------------------------------------------------ input domains

\* window.innerWidth values the viewport delivers
InnerWidths == {300, 480}
\* 1000 * (0.10 + Math.random() * 0.12), the two ends of its range
OWFactors == {100, 219}
\* 1000 * (0.18 + Math.random() * 0.14), the top of its range
OHFactors == {319}
\* now - lastTimeRef.current (ms) for a frame that follows a frame: a frame on
\* time for the clamp, and a stalled one
FrameGaps == {40, 1000}
\* now - lastTimeRef.current (ms) when lastTimeRef was set from performance.now()
\* in startGame or onVis: the frame's timestamp is the time the frame began,
\* which may be earlier than that reading
FirstGaps == {-40, 40}
\* values localStorage may hold when the component mounts
StoredScores == {0, 3}

\* ------------------------------------------------------------------ helpers

Max(a, b) == IF a >= b THEN a ELSE b
Min(a, b) == IF a <= b THEN a ELSE b

\* Math.round(n / d) for n >= 0, d > 0
Round(n, d) == (2 * n + d) \div (2 * d)

\* Idle = not running and not game over, Running = running and not game over,
\* GameOver = the game-over flag set
PhaseOf(run, go) == IF go THEN "GameOver" ELSE IF run THEN "Running" ELSE "Idle"
Phase == PhaseOf(running, isGameOver)
PhaseNext == PhaseOf(running', isGameOver')

\* updateSize: the width and height set for window.innerWidth = iw
SizeW(iw) == Max(MinW, Round(95 * Min(iw, MaxVw), 100))
SizeH(w) == Round(54 * w, 90)

GroundY(h) == Round(12 * h, 100)

\* the player resetWorld builds for width w, height h
ResetPlayer(w, h) ==
    [ x |-> Round(10 * w, 100) * Scale,
      y |-> GroundY(h) * Scale,
      vy |-> 0,
      w |-> Round(18 * w, 100),
      h |-> Round(30 * h, 100),
      jumping |-> FALSE ]

ResetBaseSpeed(w) == Round(1800 + 2 * Min(w, 420), 10)

Closure(w, h, s, go) == [w |-> w, h |-> h, score |-> s, go |-> go]

\* the id requestAnimationFrame returns: one no callback in `held` has
FreshId(held) == CHOOSE i \in 1..(Cardinality(held) + 1) : \A c \in held : c.id # i

Callback(i, cl) == [id |-> i, w |-> cl.w, h |-> cl.h, score |-> cl.score, go |-> cl.go]

\* cancelAnimationFrame(id)
Cancel(held, i) == {c \in held : c.id # i}

\* --------------------------------------------------------------- doJump

\* p.vy = -Math.max(-12, -14), in 1/Scale px
JumpVy == (0 - Max(-12, -14)) * Scale

\* doJump that adds the launch velocity to the one the player has, whenever the
\* game runs
doJump_stacking(p, run, go) ==
    IF ~run \/ go THEN p
    ELSE [p EXCEPT !.vy = @ + JumpVy, !.jumping = TRUE]

\* whether doJump gets past its two early returns
Launches(p, run, go) == ~(~run \/ go) /\ ~(p.jumping /\ p.vy > 0)

\* doJump with the running / isGameOver values its closure holds
doJump(p, run, go) ==
    IF Launches(p, run, go)
    THEN [p EXCEPT !.vy = JumpVy, !.jumping = TRUE]
    ELSE p

\* ------------------------------------------------------ gameLoop's parts

\* a time step without its clamp
ClampDt_none(raw) == raw

\* dt = Math.min(40, now - lastTimeRef.current)
ClampDt(raw) == Min(DtClamp, raw)

\* a speed that falls with the level
Speed_slowing(base, level) == base - level * SpeedPerLevel

Speed(base, level) == base + level * SpeedPerLevel

\* a spawn interval without its minimum
SpawnInterval_noFloor(level) ==
    SpawnBase - Min(SpawnCut, level * SpawnPerLevel)

SpawnInterval(level) ==
    Max(SpawnBase - Min(SpawnCut, level * SpawnPerLevel), SpawnMin)

\* a filter that keeps an obstacle whose right edge is at the threshold
OnScreen_inclusive(o) == o.x + o.w * Scale >= (0 - Offscreen) * Scale

\* the filter of "remove offscreen obstacles"
OnScreen(o) == o.x + o.w * Scale > (0 - Offscreen) * Scale

\* the obstacle a loop whose closure holds width w, height h spawns;
\* owf / ohf are 1000 * the random size factors
NewObstacle(w, h, owf, ohf) ==
    [ x |-> (w + SpawnMargin) * Scale,
      y |-> GroundY(h),
      w |-> Round(w * owf, 1000),
      h |-> Round(h * ohf, 1000),
      passed |-> FALSE ]

\* player physics and the ground clamp, for the closure's height h
Physics(p, dt, h) ==
    LET vy1 == p.vy + Gravity * dt
        y1 == p.y + vy1
    IN  IF y1 >= GroundY(h) * Scale
        THEN [p EXCEPT !.y = GroundY(h) * Scale, !.vy = 0, !.jumping = FALSE]
        ELSE [p EXCEPT !.y = y1, !.vy = vy1]

InsetW(o) == Round(InsetPct * o.w, 100) * Scale
InsetH(o) == Round(InsetPct * o.h, 100) * Scale

\* an AABB test on the full boxes, without the inset
Collides_noInset(p, o) ==
    /\ p.x + p.w * Scale >= o.x
    /\ p.x <= o.x + o.w * Scale
    /\ p.y <= (o.y + o.h) * Scale
    /\ p.y + p.h * Scale >= o.y * Scale

\* the AABB test of one obstacle against the player
Collides(p, o) ==
    /\ p.x + p.w * Scale >= o.x + InsetW(o)
    /\ p.x <= o.x + o.w * Scale - InsetW(o)
    /\ p.y <= (o.y + o.h) * Scale - InsetH(o)
    /\ p.y + p.h * Scale >= o.y * Scale + InsetH(o)

\* an updater that keeps the run's score, not the larger of the two
NewHigh_lastScore(h, s) == s

\* the value setHighScore's updater returns and stores; s is the score the
\* running gameLoop closure holds
NewHigh(h, s) == Max(h, s)

\* a scoring pass that does not look at the passed flag
Scored_noFlag(obs, p) ==
    {i \in DOMAIN obs : obs[i].x + obs[i].w * Scale < p.x}

\* the obstacles the scoring pass marks
Scored(obs, p) ==
    {i \in DOMAIN obs : ~obs[i].passed /\ obs[i].x + obs[i].w * Scale < p.x}

LevelOf(ns) == ns \div LevelEvery

\* a collision branch without its return
Continues_noReturn(c, collided) == ~c.go

\* whether a call reaches requestAnimationFrame(gameLoop) again: not after the
\* collision branch's return, and only if (!isGameOver) of its closure
Continues(c, collided) == ~collided /\ ~c.go

\* ------------------------------------------------------------- handlers

\* resetWorld that leaves the obstacle list and the spawn timer alone
resetWorld_keepsObstacles(w, h) ==
    /\ player' = ResetPlayer(w, h)
    /\ UNCHANGED << obstacles, spawnTimer >>
    /\ baseSpeed' = ResetBaseSpeed(w)
    /\ difficulty' = 0
    /\ score' = 0
    /\ isGameOver' = FALSE

\* resetWorld that leaves difficultyRef alone
resetWorld_keepsLevel(w, h) ==
    /\ player' = ResetPlayer(w, h)
    /\ obstacles' = << >>
    /\ baseSpeed' = ResetBaseSpeed(w)
    /\ spawnTimer' = 0
    /\ UNCHANGED difficulty
    /\ score' = 0
    /\ isGameOver' = FALSE

\* resetWorld memoised for width w, height h
resetWorld(w, h) ==
    /\ player' = ResetPlayer(w, h)
    /\ obstacles' = << >>
    /\ baseSpeed' = ResetBaseSpeed(w)
    /\ spawnTimer' = 0
    /\ difficulty' = 0
    /\ score' = 0
    /\ isGameOver' = FALSE

\* the visibilitychange effect depends on [running, isGameOver]: a render that
\* changes either registers onVis anew, with that render's gameLoop
VisRefresh ==
    visLoop' = IF running' # running \/ isGameOver' # isGameOver
               THEN Closure(width', height', score', isGameOver')
               ELSE visLoop

\* startGame: resetWorld(), setRunning(true), lastTimeRef = performance.now(),
\* rafRef = requestAnimationFrame(gameLoop)
startGame ==
    /\ resetWorld(width, height)
    /\ running' = TRUE
    /\ lastFromPerf' = TRUE
    /\ negTicks' = 0
    /\ LET i == FreshId(pending)
       IN  /\ rafRef' = i
           /\ pending' = pending \cup {Callback(i, startLoop)}
    /\ UNCHANGED << width, height, highScore, storage, hidden, startLoop >>
    /\ nWrites' = 0 /\ launched' = FALSE /\ lastDt' = 0
    /\ VisRefresh

\* a handler that finds nothing to do
NoOp == UNCHANGED << width, height, running, isGameOver, score, highScore, storage,
                     player, obstacles, baseSpeed, spawnTimer, difficulty, rafRef,
                     pending, lastFromPerf, hidden, startLoop, visLoop,
                     negTicks >>
        /\ nWrites' = 0 /\ launched' = FALSE /\ lastDt' = 0

\* a handler that only calls doJump
Jump ==
    /\ player' = doJump(player, running, isGameOver)
    /\ launched' = Launches(player, running, isGameOver)
    /\ UNCHANGED << width, height, running, isGameOver, score, highScore, storage,
                    obstacles, baseSpeed, spawnTimer, difficulty, rafRef, pending,
                    lastFromPerf, hidden, startLoop, visLoop, negTicks >>
    /\ nWrites' = 0 /\ lastDt' = 0

\* onTap: click / touchstart inside the game area
onTap ==
    /\ ~hidden
    /\ lastOp' = "onTap"
    /\ IF ~running /\ ~isGameOver THEN startGame
       ELSE IF isGameOver THEN startGame
       ELSE Jump

\* a Space handler that launches whatever the phase
keySpace_anyPhase ==
    /\ ~hidden
    /\ lastOp' = "keySpace"
    /\ player' = [player EXCEPT !.vy = JumpVy, !.jumping = TRUE]
    /\ launched' = TRUE
    /\ UNCHANGED << width, height, running, isGameOver, score, highScore, storage,
                    obstacles, baseSpeed, spawnTimer, difficulty, rafRef, pending,
                    lastFromPerf, hidden, startLoop, visLoop, negTicks >>
    /\ nWrites' = 0 /\ lastDt' = 0

\* keydown with Space
keySpace ==
    /\ ~hidden
    /\ lastOp' = "keySpace"
    /\ IF running /\ ~isGameOver THEN Jump ELSE NoOp

\* keydown with Enter
keyEnter ==
    /\ ~hidden
    /\ lastOp' = "keyEnter"
    /\ IF isGameOver THEN startGame ELSE NoOp

\* the Replay buttons, rendered while isGameOver
replay ==
    /\ ~hidden
    /\ isGameOver
    /\ lastOp' = "replay"
    /\ startGame

\* a Menu button that leaves the game-over screen without resetting the world
menu_keepsWorld ==
    /\ ~hidden
    /\ isGameOver
    /\ lastOp' = "menu"
    /\ isGameOver' = FALSE
    /\ UNCHANGED << width, height, running, score, highScore, storage, player,
                    obstacles, baseSpeed, spawnTimer, difficulty, rafRef, pending,
                    lastFromPerf, hidden, startLoop, negTicks >>
    /\ nWrites' = 0 /\ launched' = FALSE /\ lastDt' = 0
    /\ VisRefresh

\* the Menu button, rendered while isGameOver: resetWorld() alone
menu ==
    /\ ~hidden
    /\ isGameOver
    /\ lastOp' = "menu"
    /\ resetWorld(width, height)
    /\ UNCHANGED << width, height, running, highScore, storage, rafRef, pending,
                    lastFromPerf, hidden, startLoop, negTicks >>
    /\ nWrites' = 0 /\ launched' = FALSE /\ lastDt' = 0
    /\ VisRefresh

\* window resize: updateSize sets width and height; the render that sees them
\* memoises resetWorld and startGame anew (with that render's gameLoop), then
\* the [width, height] effect calls resetWorld
resize ==
    \E iw \in InnerWidths :
        LET w == SizeW(iw)
            h == SizeH(w)
        IN  /\ << w, h >> # << width, height >>
            /\ lastOp' = "resize"
            /\ width' = w
            /\ height' = h
            /\ startLoop' = Closure(w, h, score, isGameOver)
            /\ resetWorld(w, h)
            /\ UNCHANGED << running, highScore, storage, rafRef, pending,
                            lastFromPerf, hidden, negTicks >>
            /\ nWrites' = 0 /\ launched' = FALSE /\ lastDt' = 0
            /\ VisRefresh

\* onVis that pauses through stopGame(), which also calls setRunning(false)
onVis_stopGame ==
    /\ hidden' = ~hidden
    /\ lastOp' = "onVis"
    /\ IF hidden'
       THEN /\ rafRef' = Null
            /\ pending' = Cancel(pending, rafRef)
            /\ running' = FALSE
            /\ UNCHANGED lastFromPerf
       ELSE IF running /\ ~isGameOver
            THEN LET i == FreshId(pending)
                 IN  /\ rafRef' = i
                     /\ pending' = pending \cup {Callback(i, visLoop)}
                     /\ lastFromPerf' = TRUE
                     /\ UNCHANGED running
            ELSE UNCHANGED << rafRef, pending, lastFromPerf, running >>
    /\ UNCHANGED << width, height, isGameOver, score, highScore, storage,
                    player, obstacles, baseSpeed, spawnTimer, difficulty, startLoop,
                    negTicks >>
    /\ nWrites' = 0 /\ launched' = FALSE /\ lastDt' = 0
    /\ VisRefresh

\* onVis that does not cancel the pending callback when the document hides
onVis_noCancel ==
    /\ hidden' = ~hidden
    /\ lastOp' = "onVis"
    /\ IF hidden'
       THEN UNCHANGED << rafRef, pending, lastFromPerf >>
       ELSE IF running /\ ~isGameOver
            THEN LET i == FreshId(pending)
                 IN  /\ rafRef' = i
                     /\ pending' = pending \cup {Callback(i, visLoop)}
                     /\ lastFromPerf' = TRUE
            ELSE UNCHANGED << rafRef, pending, lastFromPerf >>
    /\ UNCHANGED << width, height, running, isGameOver, score, highScore, storage,
                    player, obstacles, baseSpeed, spawnTimer, difficulty, startLoop,
                    visLoop, negTicks >>
    /\ nWrites' = 0 /\ launched' = FALSE /\ lastDt' = 0

\* visibilitychange: onVis with document.hidden as it has become
onVis ==
    /\ hidden' = ~hidden
    /\ lastOp' = "onVis"
    /\ IF hidden'
       THEN /\ rafRef' = Null
            /\ pending' = Cancel(pending, rafRef)
            /\ UNCHANGED lastFromPerf
       ELSE IF running /\ ~isGameOver
            THEN LET i == FreshId(pending)
                 IN  /\ rafRef' = i
                     /\ pending' = pending \cup {Callback(i, visLoop)}
                     /\ lastFromPerf' = TRUE
            ELSE UNCHANGED << rafRef, pending, lastFromPerf >>
    /\ UNCHANGED << width, height, running, isGameOver, score, highScore, storage,
                    player, obstacles, baseSpeed, spawnTimer, difficulty, startLoop,
                    visLoop, negTicks >>
    /\ nWrites' = 0 /\ launched' = FALSE /\ lastDt' = 0

\* ------------------------------------------------------------- gameLoop

\* one call of the pending callback c with now - lastTimeRef.current = raw,
\* spawning (if it spawns) an obstacle of size factors owf, ohf
gameLoopStep(c, raw, owf, ohf) ==
    LET dt == ClampDt(raw)
        moveX == Speed(baseSpeed, difficulty) * dt
        moved == [i \in DOMAIN obstacles |-> [obstacles[i] EXCEPT !.x = @ - moveX]]
        kept == SelectSeq(moved, OnScreen)
        timer == spawnTimer + dt
        spawn == timer > SpawnInterval(difficulty)
        live == IF spawn THEN Append(kept, NewObstacle(c.w, c.h, owf, ohf)) ELSE kept
        p1 == Physics(player, dt, c.h)
        collided == \E i \in DOMAIN live : Collides(p1, live[i])
        rest == pending \ {c}
    IN  /\ lastFromPerf' = FALSE
        /\ lastDt' = dt
        /\ negTicks' = IF raw < 0 THEN negTicks + 1 ELSE negTicks
        /\ spawnTimer' = IF spawn THEN 0 ELSE timer
        /\ player' = p1
        /\ IF collided
           THEN \* setIsGameOver(true); stopGame(); setHighScore(...); return
                /\ obstacles' = live
                /\ isGameOver' = TRUE
                /\ running' = FALSE
                /\ highScore' = NewHigh(highScore, c.score)
                /\ storage' = NewHigh(highScore, c.score)
                /\ nWrites' = 1
                /\ UNCHANGED << score, difficulty >>
           ELSE LET hit == Scored(live, p1)
                    ns == score + Cardinality(hit)
                IN  /\ obstacles' = [i \in DOMAIN live |->
                                       IF i \in hit THEN [live[i] EXCEPT !.passed = TRUE]
                                       ELSE live[i]]
                    /\ score' = ns
                    /\ difficulty' = IF hit = {} THEN difficulty ELSE LevelOf(ns)
                    /\ nWrites' = 0
                    /\ UNCHANGED << isGameOver, running, highScore, storage >>
        /\ LET stopped == IF collided THEN Cancel(rest, rafRef) ELSE rest
               i == FreshId(stopped)
           IN  IF Continues(c, collided)
               THEN /\ rafRef' = i
                    /\ pending' = stopped \cup {[c EXCEPT !.id = i]}
               ELSE /\ rafRef' = IF collided THEN Null ELSE rafRef
                    /\ pending' = stopped
        /\ launched' = FALSE
        /\ UNCHANGED << width, height, baseSpeed, hidden, startLoop >>
        /\ VisRefresh

\* the browser runs a pending animation-frame callback
gameLoop ==
    /\ lastOp' = "gameLoop"
    /\ \E c \in pending :
         \E raw \in (IF lastFromPerf THEN FirstGaps ELSE FrameGaps) :
            /\ raw < 0 => negTicks < MaxNegTicks
            /\ LET dt == ClampDt(raw)
                   spawn == spawnTimer + dt > SpawnInterval(difficulty)
               IN  \E f \in (IF spawn THEN OWFactors \X OHFactors
                                      ELSE {<< 0, 0 >>}) :
                      gameLoopStep(c, raw, f[1], f[2])

\* ------------------------------------------------------- specifications

\* the component after mount: updateSize has run and the [width, height]
\* effect has reset the world
Init ==
    /\ \E iw \in InnerWidths : width = SizeW(iw)
    /\ height = SizeH(width)
    /\ running = FALSE
    /\ isGameOver = FALSE
    /\ score = 0
    /\ highScore \in StoredScores
    /\ storage = highScore
    /\ player = ResetPlayer(width, height)
    /\ obstacles = << >>
    /\ baseSpeed = ResetBaseSpeed(width)
    /\ spawnTimer = 0
    /\ difficulty = 0
    /\ rafRef = Null
    /\ pending = {}
    /\ lastFromPerf = FALSE
    /\ hidden = FALSE
    /\ startLoop = Closure(width, height, 0, FALSE)
    /\ visLoop = Closure(width, height, 0, FALSE)
    /\ lastOp = "mount"
    /\ nWrites = 0
    /\ launched = FALSE
    /\ negTicks = 0
    /\ lastDt = 0

Next ==
    \/ onTap
    \/ keySpace
    \/ keyEnter
    \/ replay
    \/ menu
    \/ resize
    \/ onVis
    \/ gameLoop

Spec == Init /\ [][Next]_vars

\* Under Spec no obstacle is ever cleared: doJump's launch is clamped away by
\* the next gameLoop call, every obstacle reaches the grounded player, and the
\* score stays 0.  SpecTick applies the handlers of a run to the world of a run
\* in which obstacles have been cleared, which is what the scoring pass, the
\* reset on resize and the high-score update read.
\*
\* An obstacle of size factor owf whose right edge is d (1/Scale px) right of
\* the player's x, which is past the collision test's inset.
PastObstacle(w, h, owf, d, passed) ==
    LET o == NewObstacle(w, h, owf, CHOOSE f \in OHFactors : TRUE)
    IN  [o EXCEPT !.x = ResetPlayer(w, h).x - o.w * Scale + d, !.passed = passed]

\* An obstacle whose left edge has reached the player's right edge: short of
\* the inset, so the next frame on time collides.
NearObstacle(w, h, owf) ==
    LET o == NewObstacle(w, h, owf, CHOOSE f \in OHFactors : TRUE)
        p == ResetPlayer(w, h)
    IN  [o EXCEPT !.x = p.x + p.w * Scale]

\* A scored obstacle whose right edge the next frame on time, at the speed of
\* score s, brings to `edge` px.
EdgeObstacle(w, h, s, edge) ==
    LET o == NewObstacle(w, h, 100, CHOOSE f \in OHFactors : TRUE)
        moveX == Speed(ResetBaseSpeed(w), LevelOf(s)) * DtClamp
    IN  [o EXCEPT !.x = edge * Scale + moveX - o.w * Scale, !.passed = TRUE]

\* the scores such a run is at: its first points, and one point short of the
\* first level
InitScores == (0..MaxInitScore) \cup {LevelEvery - 1}

\* the obstacle lists of such a run: one obstacle about to hit the player (those
\* before it pruned); one whose right edge is at the player's x; one a pixel
\* short of it, followed by the next obstacle a spawn interval behind; once
\* the run has scored, one already scored; and, at its first point, one that
\* the next frame brings to the offscreen threshold and one that it brings to a
\* pixel before it.  At the later scores: the one whose right edge is at the
\* player's x.
InitObstacles(w, h, s) ==
    IF s > MaxInitScore
    THEN { << PastObstacle(w, h, 219, 0, FALSE) >> }
    ELSE { << NearObstacle(w, h, 100) >> }
         \cup { << PastObstacle(w, h, 219, 0, FALSE) >> }
         \cup { << PastObstacle(w, h, 100, 1000, FALSE),
                   PastObstacle(w, h, 100, 180000, FALSE) >> }
         \cup ( IF s >= 1
                THEN { << PastObstacle(w, h, 100, 0 - 20000, TRUE) >> }
                ELSE {} )
         \cup ( IF s = 1
                THEN { << EdgeObstacle(w, h, s, 0 - Offscreen) >>,
                       << EdgeObstacle(w, h, s, 1 - Offscreen) >> }
                ELSE {} )

\* a run under way after a start from the start screen, its frame pending
InitTick ==
    /\ \E iw \in InnerWidths : width = SizeW(iw)
    /\ height = SizeH(width)
    /\ running = TRUE
    /\ isGameOver = FALSE
    /\ score \in InitScores
    /\ highScore \in StoredScores
    /\ storage = highScore
    /\ player = ResetPlayer(width, height)
    /\ obstacles \in InitObstacles(width, height, score)
    /\ baseSpeed = ResetBaseSpeed(width)
    /\ spawnTimer = 0
    /\ difficulty = LevelOf(score)
    /\ rafRef = 1
    /\ pending = {Callback(1, Closure(width, height, 0, FALSE))}
    /\ lastFromPerf = FALSE
    /\ hidden = FALSE
    /\ startLoop = Closure(width, height, 0, FALSE)
    /\ visLoop = Closure(width, height, 0, FALSE)
    /\ lastOp = "gameLoop"
    /\ nWrites = 0
    /\ launched = FALSE
    /\ negTicks = 0
    /\ lastDt = DtClamp

\* what happens within that run and at its end: frames, jump keys, viewport and
\* visibility changes
NextTick ==
    \/ gameLoop
    \/ keySpace
    \/ resize
    \/ onVis

SpecTick == InitTick /\ [][NextTick]_vars

\* The speed and the spawn interval depend on the level alone.  SpecLevel runs
\* the frames of a run that has reached level d, for every d up to MaxLevel:
\* the score is the first of that level, and the one live obstacle is a scored
\* one behind the player.
InitLevel ==
    /\ \E iw \in InnerWidths : width = SizeW(iw)
    /\ height = SizeH(width)
    /\ running = TRUE
    /\ isGameOver = FALSE
    /\ difficulty \in 0..MaxLevel
    /\ score = difficulty * LevelEvery
    /\ highScore \in StoredScores
    /\ storage = highScore
    /\ player = ResetPlayer(width, height)
    /\ obstacles = << PastObstacle(width, height, 100, 0 - 20000, TRUE) >>
    /\ baseSpeed = ResetBaseSpeed(width)
    /\ spawnTimer = 0
    /\ rafRef = 1
    /\ pending = {Callback(1, Closure(width, height, 0, FALSE))}
    /\ lastFromPerf = FALSE
    /\ hidden = FALSE
    /\ startLoop = Closure(width, height, 0, FALSE)
    /\ visLoop = Closure(width, height, 0, FALSE)
    /\ lastOp = "gameLoop"
    /\ nWrites = 0
    /\ launched = FALSE
    /\ negTicks = 0
    /\ lastDt = DtClamp

NextLevel == gameLoop

SpecLevel == InitLevel /\ [][NextLevel]_vars

\* ------------------------------------------------------------------ claims

\* a step that takes the phase from Running to GameOver
Collision == running /\ ~isGameOver /\ isGameOver'

\* C1 as stated: over every sequence of events the only phase changes are
\* Idle -> Running, Running -> GameOver and GameOver -> Running.
C1_OnlyThreePhaseChanges ==
    [][ PhaseNext # Phase =>
          << Phase, PhaseNext >> \in { << "Idle", "Running" >>,
                                       << "Running", "GameOver" >>,
                                       << "GameOver", "Running" >> } ]_vars

\* C1 amended: the only phase changes are Idle -> Running (a tap),
\* Running -> GameOver (a gameLoop call that collides), GameOver -> Running
\* (tap, Enter, Replay) and GameOver -> Idle (the Menu button, or a viewport
\* size change while GameOver).
C1_PhaseChanges ==
    [][ PhaseNext # Phase =>
          \/ Phase = "Idle" /\ PhaseNext = "Running" /\ lastOp' = "onTap"
          \/ Phase = "Running" /\ PhaseNext = "GameOver" /\ lastOp' = "gameLoop"
          \/ Phase = "GameOver" /\ PhaseNext = "Running"
               /\ lastOp' \in {"onTap", "keyEnter", "replay"}
          \/ Phase = "GameOver" /\ PhaseNext = "Idle"
               /\ lastOp' \in {"menu", "resize"} ]_vars

\* the Menu button has taken the game from GameOver to the start screen
C1_MenuBackToIdle == lastOp = "menu" /\ Phase = "Idle"

\* C2: gameLoop never executes while the phase is Idle or GameOver.
C2_NoTickOutsideRunning ==
    [][ lastOp' = "gameLoop" => running /\ ~isGameOver ]_vars

\* the colliding call has run stopGame and left no callback behind
C2_StoppedAtCollision == lastOp = "gameLoop" /\ isGameOver /\ pending = {}

C4_JumpLeavesGround ==
    [][ ( /\ lastOp' = "gameLoop"
          /\ launched
          /\ player.y = GroundY(height) * Scale
          /\ negTicks' = negTicks )
        => /\ player'.jumping
           /\ player'.y # GroundY(height) * Scale ]_vars

\* C5: in a gameLoop call that does not collide, an obstacle's passed flag is
\* set exactly when it was set before or the obstacle's right edge is now
\* strictly left of the player's x, it is never cleared, and the score rises by
\* one for each obstacle whose flag the call sets.  (The call drops k
\* obstacles from the front of the list and appends b new ones.)
C5_ScoreOncePerObstacle ==
    [][ (lastOp' = "gameLoop" /\ running' /\ ~isGameOver') =>
          \E b \in {0, 1} :
             LET n == Len(obstacles') - b
                 k == Len(obstacles) - n
                 old(i) == obstacles[i + k]
                 new(i) == obstacles'[i]
                 left(i) == new(i).x + new(i).w * Scale < player'.x
                 fresh == {i \in 1..n : ~old(i).passed /\ new(i).passed}
             IN  /\ n >= 0
                 /\ k >= 0
                 /\ \A i \in 1..n :
                       /\ new(i).w = old(i).w
                       /\ new(i).h = old(i).h
                       /\ new(i).x - old(i).x = new(1).x - old(1).x
                       /\ new(i).passed <=> (old(i).passed \/ left(i))
                 /\ b = 1 => ~obstacles'[n + 1].passed
                 /\ score' = score + Cardinality(fresh) ]_vars

\* a gameLoop call has scored the obstacle at the head of the list, taking the
\* score above any the run began the check with
C5_ObstacleScored ==
    /\ lastOp = "gameLoop"
    /\ running
    /\ Len(obstacles) >= 1
    /\ obstacles[1].passed
    /\ score = MaxInitScore + 1

C7_HighScoreMonotone ==
    [][ /\ highScore' >= highScore
        /\ storage' >= storage
        /\ nWrites' > 0 => Collision
        /\ Collision => nWrites' = 1 ]_vars

\* a collision has written the stored value back, a larger one than the score
C7_WrittenAtGameOver ==
    isGameOver /\ nWrites = 1 /\ storage > score /\ storage = highScore

\* C8: in Idle or GameOver the Space key changes nothing of the player and
\* launches no jump; a tap starts or restarts the game and launches no jump.
C8_JumpIgnoredOutsideRunning ==
    [][ (~running \/ isGameOver) =>
          /\ lastOp' = "keySpace" => (player' = player /\ ~launched')
          /\ lastOp' = "onTap" => /\ ~launched'
                                  /\ player'.vy = 0
                                  /\ ~player'.jumping
                                  /\ running' /\ ~isGameOver' ]_vars

\* Space has been pressed on the game-over screen
C8_SpaceInGameOver == lastOp = "keySpace" /\ isGameOver

C10_StartAndRestartAgree ==
    [][ ( \/ Phase = "Idle" /\ lastOp' = "onTap"
          \/ Phase = "GameOver" /\ lastOp' \in {"onTap", "keyEnter", "replay"} )
        => /\ running' /\ ~isGameOver'
           /\ score' = 0
           /\ difficulty' = 0
           /\ spawnTimer' = 0
           /\ obstacles' = << >>
           /\ player' = ResetPlayer(width, height)
           /\ highScore' = highScore
           /\ storage' = storage ]_vars

\* Replay has restarted a run that left an obstacle and a stored high score
C10_RestartedByReplay ==
    /\ lastOp = "replay"
    /\ running
    /\ score = 0
    /\ obstacles = << >>
    /\ highScore > 0

\* C11: in every state whose phase is Idle, however it was reached (mount,
\* Menu, a viewport size change during GameOver), the score is 0 and the
\* obstacle list is empty.
C11_IdleIsEmpty ==
    Phase = "Idle" => (score = 0 /\ obstacles = << >>)

\* Idle reached by a viewport size change on the game-over screen (the only
\* render that memoises startGame with isGameOver set)
C11_IdleAfterResizeInGameOver ==
    lastOp = "resize" /\ Phase = "Idle" /\ startLoop.go

\* C12: the dt every gameLoop call uses lies in [0, 40] ms, whatever frame
\* timestamp the call receives, one earlier than lastTimeRef included.
C12_DtInRange ==
    [][ lastOp' = "gameLoop" => (lastDt' >= 0 /\ lastDt' <= DtClamp) ]_vars

\* C13: a gameLoop call ends the run exactly when, after its movement,
\* pruning, spawning and player physics, some live obstacle overlaps the
\* player box by more than the inset (8% of the obstacle's width and height,
\* rounded to whole px as the code rounds it); which obstacle of the list it is
\* does not matter.
C13_EndsIffOverlap ==
    [][ lastOp' = "gameLoop" =>
          LET p == player'
              pLeft == p.x
              pRight == p.x + p.w * Scale
              pBottom == p.y
              pTop == p.y + p.h * Scale
              overlap(o) ==
                  LET insetX == ((2 * InsetPct * o.w + 100) \div 200) * Scale
                      insetY == ((2 * InsetPct * o.h + 100) \div 200) * Scale
                  IN  /\ pRight >= o.x + insetX
                      /\ pLeft <= o.x + o.w * Scale - insetX
                      /\ pBottom <= (o.y + o.h) * Scale - insetY
                      /\ pTop >= o.y * Scale + insetY
          IN  /\ (running /\ ~isGameOver /\ isGameOver')
                    <=> (\E o \in {obstacles'[i] : i \in DOMAIN obstacles'} : overlap(o))
              /\ isGameOver' => ~running' ]_vars

\* a call has ended the run with two obstacles live, the second of which does
\* not touch the player
C13_CollidedWithTwoLive ==
    /\ lastOp = "gameLoop"
    /\ isGameOver
    /\ Len(obstacles) = 2
    /\ obstacles[2].x > player.x + player.w * Scale

\* C14: a gameLoop call retains, in their order, exactly the obstacles whose
\* right edge x + w after the move is strictly greater than -50 (one at -50 is
\* removed, one at -49 is kept); the list it leaves holds them and at most
\* the obstacle it spawns.
C14_PruneThreshold ==
    [][ lastOp' = "gameLoop" =>
          LET moveX == Speed(baseSpeed, difficulty) * lastDt'
              right(i) == obstacles[i].x - moveX + obstacles[i].w * Scale
              keep == {i \in DOMAIN obstacles : right(i) > (0 - Offscreen) * Scale}
              place(i) == Cardinality({k \in keep : k <= i})
          IN  /\ Len(obstacles') \in {Cardinality(keep), Cardinality(keep) + 1}
              /\ \A j \in DOMAIN obstacles' :
                    obstacles'[j].x + obstacles'[j].w * Scale > (0 - Offscreen) * Scale
              /\ \A i \in keep :
                    /\ obstacles'[place(i)].x = obstacles[i].x - moveX
                    /\ obstacles'[place(i)].w = obstacles[i].w
                    /\ obstacles'[place(i)].h = obstacles[i].h ]_vars

\* a call has kept an obstacle whose right edge it moved to -49
C14_KeptOnePixelBefore ==
    /\ lastOp = "gameLoop"
    /\ \E i \in DOMAIN obstacles :
          obstacles[i].x + obstacles[i].w * Scale = (1 - Offscreen) * Scale

\* C15: whenever a gameLoop call starts, difficultyRef holds floor(score / 5)
\* for the score as it is then, after scoring calls, viewport size changes and
\* the end of the run alike.
C15_LevelFollowsScore ==
    [][ lastOp' = "gameLoop" => difficulty = score \div LevelEvery ]_vars

\* a scoring call has taken the score to 5 and the level to 1, with the next
\* call pending
C15_LevelRaised ==
    /\ lastOp = "gameLoop"
    /\ score = LevelEvery
    /\ difficulty = 1
    /\ pending # {}

\* C16 as stated: for all levels d1 <= d2 the obstacle speed and the spawn
\* interval a gameLoop call computes at d2 are both greater than or equal to
\* those it computes at d1.
C16_BothNonDecreasing ==
    \A d1 \in 0..MaxLevel : \A d2 \in d1..MaxLevel :
        /\ Speed(baseSpeed, d2) >= Speed(baseSpeed, d1)
        /\ SpawnInterval(d2) >= SpawnInterval(d1)

\* C16 amended: for all levels d1 <= d2 the obstacle speed at d2 is greater
\* than or equal to the speed at d1, and the spawn interval at d2 is less than
\* or equal to the interval at d1 (obstacles come faster and more often).
C16_FasterAndMoreOften ==
    \A d1 \in 0..MaxLevel : \A d2 \in d1..MaxLevel :
        /\ Speed(baseSpeed, d2) >= Speed(baseSpeed, d1)
        /\ SpawnInterval(d2) <= SpawnInterval(d1)

\* a call at a level above 0 has spawned an obstacle, at a higher speed and
\* after a shorter spawn interval than at level 0
C16_SpawnedAtHigherLevel ==
    /\ lastOp = "gameLoop"
    /\ difficulty >= 1
    /\ spawnTimer = 0
    /\ Len(obstacles) >= 1
    /\ obstacles[Len(obstacles)].x = (width + SpawnMargin) * Scale
    /\ Speed(baseSpeed, difficulty) > Speed(baseSpeed, 0)
    /\ SpawnInterval(difficulty) < SpawnInterval(0)

\* C17: at every level the spawn interval a gameLoop call uses is at least
\* 320 ms; the call spawns at most one obstacle, it spawns exactly when the
\* spawn timer with its dt added strictly exceeds the interval, and it then
\* sets the timer to 0 (otherwise the timer keeps the sum).
C17_SpawnFloorAndOnce ==
    [][ lastOp' = "gameLoop" =>
          LET timer == spawnTimer + lastDt'
              moveX == Speed(baseSpeed, difficulty) * lastDt'
              kept == {i \in DOMAIN obstacles :
                         obstacles[i].x - moveX + obstacles[i].w * Scale
                            > (0 - Offscreen) * Scale}
              spawned == Len(obstacles') - Cardinality(kept)
          IN  /\ SpawnInterval(difficulty) >= 320
              /\ spawned \in {0, 1}
              /\ spawned = 1 <=> timer > SpawnInterval(difficulty)
              /\ spawnTimer' = IF spawned = 1 THEN 0 ELSE timer ]_vars

\* at a level whose interval is the minimum, a call has brought the timer to
\* exactly 320 ms and has not spawned
C17_NoSpawnAtTheInterval ==
    /\ lastOp = "gameLoop"
    /\ SpawnBase - SpawnPerLevel * difficulty < 320
    /\ spawnTimer = 320

\* C18: after a viewport size change, in any phase, every gameLoop call
\* computes from the width and height as they are now: its ground clamp is at
\* the ground level of the current height (where resetWorld rests the player),
\* and an obstacle it spawns has the position and the dimensions of the
\* current width and height.
C18_TicksUseCurrentSize ==
    [][ lastOp' = "gameLoop" =>
          /\ player' = Physics(player, lastDt', height)
          /\ ( spawnTimer + lastDt' > SpawnInterval(difficulty) =>
                 \E owf \in OWFactors, ohf \in OHFactors :
                    obstacles'[Len(obstacles')] = NewObstacle(width, height, owf, ohf) ) ]_vars

\* C19: when the document becomes hidden the pending callback is cancelled,
\* and no gameLoop call runs while it is hidden; when it becomes visible a
\* callback is scheduled exactly if the phase is Running, and lastTimeRef is
\* then the time of the resume, so that the first call after it takes its dt
\* from there.
C19_PauseAndResume ==
    [][ /\ (lastOp' = "onVis" /\ hidden') => (pending' = {} /\ rafRef' = Null)
        /\ lastOp' = "gameLoop" => ~hidden
        /\ (lastOp' = "onVis" /\ ~hidden') =>
              /\ pending' # {} <=> Phase = "Running"
              /\ pending' # {} =>
                    /\ lastFromPerf'
                    /\ \E c \in pending' : pending' = {c} /\ rafRef' = c.id ]_vars

\* the document has come back while the game runs, and a callback is
\* scheduled again
C19_ResumedWhileRunning ==
    /\ lastOp = "onVis"
    /\ ~hidden
    /\ running
    /\ obstacles # << >>
    /\ pending # {}

\* C20: at most one gameLoop callback is pending at any time, and rafRef
\* holds the id of that callback, or null when none is pending.
C20_OneLoopHeldByRafRef ==
    /\ Cardinality(pending) <= 1
    /\ \A c \in pending : rafRef = c.id
    /\ pending = {} => rafRef = Null

\* C21: in a gameLoop call that leaves the player at rest on the ground, an
\* obstacle that had not yet reached the player (the player's right edge short
\* of the obstacle's left edge plus the inset) either still has not reached it
\* or meets the collision test, which ends the run: it is never carried past
\* the player, where the scoring pass would count it.
C21_NoTunnelling ==
    [][ (lastOp' = "gameLoop" /\ ~player'.jumping /\ player'.vy = 0) =>
          LET p == player'
              moveX == Speed(baseSpeed, difficulty) * lastDt'
          IN  \A i \in DOMAIN obstacles :
                LET o == obstacles[i]
                    insetX == ((2 * InsetPct * o.w + 100) \div 200) * Scale
                    insetY == ((2 * InsetPct * o.h + 100) \div 200) * Scale
                    oLeft == o.x - moveX
                    oRight == oLeft + o.w * Scale
                    ahead == p.x + p.w * Scale < oLeft + insetX
                    hit == /\ p.x + p.w * Scale >= oLeft + insetX
                           /\ p.x <= oRight - insetX
                           /\ p.y <= (o.y + o.h) * Scale - insetY
                           /\ p.y + p.h * Scale >= o.y * Scale + insetY
                IN  player.x + player.w * Scale < o.x + insetX
                      => /\ ahead \/ (hit /\ isGameOver')
                         /\ ~(oRight < p.x) ]_vars

\* an obstacle that came from the right edge has met the player on the ground
\* and ended the run unscored
C21_CaughtAtThePlayer ==
    /\ lastOp = "gameLoop"
    /\ isGameOver
    /\ ~player.jumping
    /\ \E i \in DOMAIN obstacles :
          /\ ~obstacles[i].passed
          /\ obstacles[i].x <= player.x + player.w * Scale
          /\ obstacles[i].x + obstacles[i].w * Scale >= player.x

====
